---------------------------- MODULE Spec2Model ----------------------------
(* A state-machine model of image_tokenizer/models/seed_qformer/blip2.py:   *)
(* one Blip2Base instance (an nn.Module), the file system and download      *)
(* cache it reads checkpoints from, the spaCy installation its lemmatizer   *)
(* property imports, and the train() methods of the module tree around it.  *)
EXTENDS Integers, Sequences, FiniteSets, TLC

VARIABLES
    state_dict,      \* the model's own parameters: key -> value
    fs,              \* local file system: name -> checkpoint id, 0 = no such file
    cache,           \* download cache: url -> checkpoint id, 0 = not cached
    loadRet,         \* how the last load_from_pretrained call ended
    _lemmatizer,     \* self._lemmatizer: "unset" (no attribute), "None", or "obj"
    lemObj,          \* identity of the object held by self._lemmatizer (0 = none)
    spacyEnv,        \* the interpreter's spaCy installation
    spacyLoads,      \* how many times spacy.load ran for this instance
    errorLogged,     \* logging.error was called
    process,         \* "running", "in_except" (handler of line 160), "exited"
    exitStatus,      \* status passed to exit, -1 while running
    lemRet,          \* how the last access to the lemmatizer property ended
    lemmatizeRet,    \* how the last _lemmatize call ended
    vit_name,        \* self.vit_name: "unset" or the recorded model name
    visual_encoder,  \* self.visual_encoder: [kind, num_layers], kind "unset" if absent
    named_parameters,  \* self.named_parameters(), as a list of parameter records
    initRet,         \* how the last init_vision_encoder call ended
    optRet,          \* how the last get_optimizer_params call ended
    training,        \* module -> its training flag
    trainFn,         \* module -> what its train attribute resolves to
    trainRet         \* how the last train call ended

loadVars  == <<state_dict, fs, cache, loadRet>>
lemVars   == <<_lemmatizer, lemObj, spacyEnv, spacyLoads, errorLogged, process,
               exitStatus, lemRet, lemmatizeRet>>
vitVars   == <<vit_name, visual_encoder, named_parameters, initRet, optRet>>
trainVars == <<training, trainFn, trainRet>>
vars      == <<loadVars, lemVars, vitVars, trainVars>>

-----------------------------------------------------------------------------
(* load_from_pretrained                                                     *)

\* Names a caller may pass.  The first is a URL; a local file may carry the
\* same name (a relative path below a directory called "http:").
Names == {"http://host/ckpt.pth", "ckpt.pth"}

is_url(n) == n = "http://host/ckpt.pth"

\* Keys of the model's own state dict.
ModelKeys == {"w", "b"}

\* The checkpoints a file can hold, by id.  1: all model keys; 2: key "b"
\* missing; 3: an unexpected key "x"; 4: a pickle without a "model" entry.
CkptIds == 1..4

HasModel(c) == c \in {1, 2, 3}

CkptKeys(c) ==
    CASE c = 1 -> {"w", "b"}
      [] c = 2 -> {"w"}
      [] c = 3 -> {"w", "b", "x"}
      [] OTHER -> {}

\* checkpoint["model"]: every tensor of checkpoint c holds the value c.
CkptModel(c) == [k \in CkptKeys(c) |-> c]

NoMsg == [missing_keys |-> {}, unexpected_keys |-> {}]

NoLoad == [outcome |-> "none", exc |-> "", arg |-> "", read |-> "none",
           readId |-> 0, applied |-> FALSE, msg |-> NoMsg]

isfile(n) == fs[n] # 0

\* nn.Module.load_state_dict(sd, strict=False): copies the matching keys and
\* reports the others instead of raising.
load_state_dict_params(sd) ==
    [k \in ModelKeys |-> IF k \in DOMAIN sd THEN sd[k] ELSE state_dict[k]]

load_state_dict_msg(sd) ==
    [missing_keys |-> ModelKeys \ DOMAIN sd,
     unexpected_keys |-> (DOMAIN sd) \ ModelKeys]

\* The branch taken by the if / elif / else of load_from_pretrained.
DispatchFileFirst(n) ==
    IF isfile(n) THEN "file" ELSE IF is_url(n) THEN "url" ELSE "invalid"

DispatchNoElse(n) == IF is_url(n) THEN "url" ELSE "file"

Dispatch(n) ==
    IF is_url(n) THEN "url" ELSE IF isfile(n) THEN "file" ELSE "invalid"

\* download_cached_file(url): the cached copy if there is one; otherwise the
\* download either fails (0) or leaves some checkpoint in the cache.
DownloadOutcomes(n) == IF cache[n] # 0 THEN {cache[n]} ELSE {0} \cup CkptIds

Raised(n, e, src, c) ==
    [outcome |-> "raised", exc |-> e, arg |-> n, read |-> src, readId |-> c,
     applied |-> FALSE, msg |-> NoMsg]

\* torch.load(file) followed by lines 89-96, for the file of content c read
\* from src ("cache" or "path").
LoadCheckpoint(n, c, src) ==
    IF c = 0
    THEN /\ loadRet' = Raised(n, "FileNotFoundError", src, c)
         /\ state_dict' = state_dict
    ELSE IF ~HasModel(c)
    THEN /\ loadRet' = Raised(n, "KeyError", src, c)
         /\ state_dict' = state_dict
    ELSE /\ state_dict' = load_state_dict_params(CkptModel(c))
         /\ loadRet' = [outcome |-> "returned", exc |-> "", arg |-> n,
                        read |-> src, readId |-> c, applied |-> TRUE,
                        msg |-> load_state_dict_msg(CkptModel(c))]

load_from_pretrained(n) ==
    /\ process = "running"
    /\ CASE Dispatch(n) = "url" ->
              \E dl \in DownloadOutcomes(n) :
                  IF dl = 0
                  THEN /\ loadRet' = Raised(n, "URLError", "none", 0)
                       /\ UNCHANGED <<state_dict, cache>>
                  ELSE /\ cache' = [cache EXCEPT ![n] = dl]
                       /\ LoadCheckpoint(n, dl, "cache")
         [] Dispatch(n) = "file" ->
              /\ LoadCheckpoint(n, fs[n], "path")
              /\ UNCHANGED cache
         [] OTHER ->
              /\ loadRet' = Raised(n, "RuntimeError", "none", 0)
              /\ UNCHANGED <<state_dict, cache>>
    /\ UNCHANGED <<fs, lemVars, vitVars, trainVars>>

\* The environment creates, replaces or removes a local file.
write_file(n, c) ==
    /\ fs[n] # c
    /\ fs' = [fs EXCEPT ![n] = c]
    /\ UNCHANGED <<state_dict, cache, loadRet, lemVars, vitVars, trainVars>>

LoadCall == \E n \in Names : load_from_pretrained(n)

FileChange == \E n \in Names, c \in {0} \cup CkptIds : write_file(n, c)

-----------------------------------------------------------------------------
(* The lemmatizer property and _lemmatize                                   *)

MaxTokens == 2     \* tokens per answer
MaxAnswers == 2    \* answers per _lemmatize call

\* What the spaCy pipeline yields for a token: its text, tag and lemma.
Tokens == {
    [text |-> "dogs",    pos_ |-> "NOUN", lemma_ |-> "dog"],
    [text |-> "running", pos_ |-> "VERB", lemma_ |-> "run"],
    [text |-> "better",  pos_ |-> "ADJ",  lemma_ |-> "good"] }

\* An answer is modelled by the doc the pipeline yields for it.
Docs == UNION { [1..n -> Tokens] : n \in 0..MaxTokens }

AnswerLists == UNION { [1..n -> Docs] : n \in 0..MaxAnswers }

NoLem == [outcome |-> "none", exc |-> "", value |-> 0]

NoLemmatize == [outcome |-> "none", exc |-> "", arg |-> <<>>, value |-> <<>>]

\* One evaluation of the property body (lines 155-170) in the current state:
\* how it ends, and whether it ran spacy.load / logging.error on the way.
LemmatizerGet ==
    CASE _lemmatizer = "unset" ->
           \* self._lemmatizer was never assigned: nn.Module.__getattr__ raises
           [outcome |-> "raised", exc |-> "AttributeError", value |-> 0,
            loaded |-> FALSE, logged |-> FALSE]
      [] _lemmatizer = "None" /\ spacyEnv = "ok" ->
           [outcome |-> "returned", exc |-> "", value |-> spacyLoads + 1,
            loaded |-> TRUE, logged |-> FALSE]
      [] _lemmatizer = "None" /\ spacyEnv = "missing" ->
           \* ImportError: logging.error(...), then exit(1)
           [outcome |-> "exiting", exc |-> "", value |-> 0,
            loaded |-> FALSE, logged |-> TRUE]
      [] _lemmatizer = "None" /\ spacyEnv = "no_model" ->
           \* spacy.load raises OSError, which the handler does not catch
           [outcome |-> "raised", exc |-> "OSError", value |-> 0,
            loaded |-> FALSE, logged |-> FALSE]
      [] OTHER ->
           [outcome |-> "returned", exc |-> "", value |-> lemObj,
            loaded |-> FALSE, logged |-> FALSE]

\* The state change of one evaluation r of the property body.
LemmatizerEffect(r) ==
    /\ _lemmatizer' = IF r.loaded THEN "obj" ELSE _lemmatizer
    /\ lemObj' = IF r.loaded THEN r.value ELSE lemObj
    /\ spacyLoads' = IF r.loaded THEN spacyLoads + 1 ELSE spacyLoads
    /\ errorLogged' = (errorLogged \/ r.logged)
    /\ process' = IF r.outcome = "exiting" THEN "in_except" ELSE process
    /\ UNCHANGED <<spacyEnv, exitStatus>>

\* An access to the lemmatizer property.
lemmatizer ==
    /\ process = "running"
    /\ LET r == LemmatizerGet IN
         /\ LemmatizerEffect(r)
         /\ lemRet' = [outcome |-> r.outcome, exc |-> r.exc, value |-> r.value]
    /\ UNCHANGED <<lemmatizeRet, loadVars, vitVars, trainVars>>

\* exit(1), line 168: the last statement of the except handler.
exit_process ==
    /\ process = "in_except"
    /\ process' = "exited"
    /\ exitStatus' = 1
    /\ lemRet' = IF lemRet.outcome = "exiting"
                 THEN [lemRet EXCEPT !.outcome = "exit"] ELSE lemRet
    /\ lemmatizeRet' = IF lemmatizeRet.outcome = "exiting"
                       THEN [lemmatizeRet EXCEPT !.outcome = "exit"]
                       ELSE lemmatizeRet
    /\ UNCHANGED <<_lemmatizer, lemObj, spacyEnv, spacyLoads, errorLogged,
                   loadVars, vitVars, trainVars>>

\* A subclass constructor or caller runs  self._lemmatizer = None ; nothing
\* in Blip2Base does.
assign_lemmatizer_none ==
    /\ process = "running"
    /\ _lemmatizer = "unset"
    /\ _lemmatizer' = "None"
    /\ UNCHANGED <<lemObj, spacyEnv, spacyLoads, errorLogged, process,
                   exitStatus, lemRet, lemmatizeRet, loadVars, vitVars,
                   trainVars>>

\* " ".join(words): the words with one " " between neighbours.
RECURSIVE Join(_)
Join(words) ==
    IF words = <<>> THEN <<>>
    ELSE IF Len(words) = 1 THEN <<Head(words)>>
    ELSE <<Head(words), " ">> \o Join(Tail(words))

\* The word appended for a token, lines 143-146.
Word(token) ==
    IF token.pos_ \in {"NOUN", "VERB"} THEN token.lemma_ ELSE token.text

\* apply(answer), lines 138-149, given the doc of the answer.
apply(doc) == Join([i \in 1..Len(doc) |-> Word(doc[i])])

\* _lemmatize(answers): the property is read once per answer, so an empty
\* list never touches it; the first read decides how the call ends, later
\* reads return the cached object.
_lemmatize(answers) ==
    /\ process = "running"
    /\ IF answers = <<>>
       THEN /\ lemmatizeRet' = [outcome |-> "returned", exc |-> "",
                                arg |-> answers, value |-> <<>>]
            /\ UNCHANGED <<_lemmatizer, lemObj, spacyEnv, spacyLoads,
                           errorLogged, process, exitStatus>>
       ELSE LET r == LemmatizerGet IN
            /\ LemmatizerEffect(r)
            /\ lemmatizeRet' =
                 IF r.outcome = "returned"
                 THEN [outcome |-> "returned", exc |-> "", arg |-> answers,
                       value |-> [i \in 1..Len(answers) |-> apply(answers[i])]]
                 ELSE [outcome |-> r.outcome, exc |-> r.exc, arg |-> answers,
                       value |-> <<>>]
    /\ UNCHANGED <<lemRet, loadVars, vitVars, trainVars>>

LemmatizeCall == \E answers \in AnswerLists : _lemmatize(answers)

-----------------------------------------------------------------------------
(* init_vision_encoder and get_optimizer_params                             *)

MaxParams == 2     \* parameters of the module

\* Depths (number of transformer blocks) an EVA encoder may be built with.
Depths == {1, 2}

\* Model names a caller may pass; the last is not a supported one.
ModelNames == {"eva_clip_g", "eva2_clip_L", "clip_L", "vit_base"}

\* The names listed by the assertion of line 66.
AcceptedNames == {"eva_clip_g", "eva2_clip_L", "clip_L"}

NoEncoder == [kind |-> "unset", num_layers |-> 0]

NoInit == [outcome |-> "none", exc |-> "", arg |-> "", constructed |-> FALSE,
           visual_encoder |-> NoEncoder, ln_vision |-> FALSE]

\* The encoders the branch of lines 71-75 can bind to visual_encoder for a
\* name; the empty set when no branch binds it.
Constructed(model_name) ==
    CASE model_name = "eva_clip_g" ->
           { [kind |-> "eva", num_layers |-> d] : d \in Depths }
      [] model_name = "clip_L" -> { [kind |-> "clip", num_layers |-> 0] }
      [] OTHER -> {}

init_vision_encoder(model_name) ==
    /\ process = "running"
    /\ IF model_name \notin AcceptedNames
       THEN /\ initRet' = [NoInit EXCEPT !.outcome = "raised",
                                         !.exc = "AssertionError",
                                         !.arg = model_name]
            /\ UNCHANGED vit_name
       ELSE IF Constructed(model_name) = {}
       THEN \* line 76 reads visual_encoder, which no branch has bound
            /\ initRet' = [NoInit EXCEPT !.outcome = "raised",
                                         !.exc = "UnboundLocalError",
                                         !.arg = model_name]
            /\ UNCHANGED vit_name
       ELSE \E enc \in Constructed(model_name) :
            /\ vit_name' = model_name
            /\ initRet' = [outcome |-> "returned", exc |-> "",
                           arg |-> model_name, constructed |-> TRUE,
                           visual_encoder |-> enc, ln_vision |-> TRUE]
    /\ UNCHANGED <<visual_encoder, named_parameters, optRet, loadVars,
                   lemVars, trainVars>>

\* Parameters by what get_optimizer_params reads of them: whether the name
\* contains 'visual_encoder', the layer id the encoder's get_num_layer(name)
\* gives (-1 outside the encoder), len(shape) == 1, name.endswith(".bias"),
\* and requires_grad.
ParamKinds(L) ==
    \* weight matrices of every layer
    { [vit |-> l >= 0, layer |-> l, one_dim |-> FALSE, bias |-> FALSE,
       requires_grad |-> TRUE] : l \in (-1)..(L + 1) }
    \cup
    \* one-dimensional norm weights
    { [vit |-> l >= 0, layer |-> l, one_dim |-> TRUE, bias |-> FALSE,
       requires_grad |-> TRUE] : l \in {-1, L} }
    \cup
    \* parameters named "....bias": one-dimensional in the encoder, with
    \* more than one dimension outside it
    { [vit |-> l >= 0, layer |-> l, one_dim |-> l >= 0, bias |-> TRUE,
       requires_grad |-> TRUE] : l \in {-1, L} }
    \cup
    \* a frozen encoder parameter
    { [vit |-> TRUE, layer |-> 0, one_dim |-> FALSE, bias |-> FALSE,
       requires_grad |-> FALSE] }

ParamLists(L) == UNION { [1..n -> ParamKinds(L)] : n \in 0..MaxParams }

\* The caller stores the returned pair,
\*   self.visual_encoder, self.ln_vision = self.init_vision_encoder(...),
\* which registers the encoder's parameters beside the module's other ones.
assign_visual_encoder(plist) ==
    /\ process = "running"
    /\ initRet.outcome = "returned"
    /\ visual_encoder.kind = "unset"
    /\ visual_encoder' = initRet.visual_encoder
    /\ named_parameters' = plist
    /\ UNCHANGED <<vit_name, initRet, optRet, loadVars, lemVars, trainVars>>

\* Rationals as <<numerator, denominator>>, denominator > 0.
RECURSIVE IntPow(_, _)
IntPow(b, k) == IF k = 0 THEN 1 ELSE b * IntPow(b, k - 1)

Pow(q, k) == <<IntPow(q[1], k), IntPow(q[2], k)>>

\* lr_scales of line 101, indexed as the Python list is: 0 .. L+1.
LrScalesReversed(lr_scale, L) == [i \in 0..(L + 1) |-> Pow(lr_scale, i)]

LrScales(lr_scale, L) == [i \in 0..(L + 1) |-> Pow(lr_scale, L + 1 - i)]

\* "no_decay" / "decay" of lines 109-114.
DecayTag(p) == IF p.one_dim \/ p.bias THEN "no_decay" ELSE "decay"

\* group_name of lines 110-119: the tag, prefixed by the layer id inside the
\* encoder ("vit_layer_%d_%s"); -1 stands for no prefix.
GroupName(p) == <<IF p.vit THEN p.layer ELSE -1, DecayTag(p)>>

\* The dict entry created for the first parameter of a group, lines 121-127.
NewGroup(p, weight_decay, lr_scale, L) ==
    [name |-> GroupName(p),
     weight_decay |-> IF DecayTag(p) = "no_decay" THEN 0 ELSE weight_decay,
     params |-> <<>>,
     lr_scale |-> IF p.vit THEN LrScales(lr_scale, L)[p.layer] ELSE <<1, 1>>]

\* One iteration of the loop of lines 106-129 for parameter number i.
AddParamKeepFrozen(groups, plist, i, weight_decay, lr_scale, L) ==
    LET p == plist[i]
        have == \E j \in 1..Len(groups) : groups[j].name = GroupName(p)
        gs == IF have THEN groups
              ELSE Append(groups, NewGroup(p, weight_decay, lr_scale, L))
    IN  [j \in 1..Len(gs) |->
            IF gs[j].name = GroupName(p)
            THEN [gs[j] EXCEPT !.params = Append(@, i)]
            ELSE gs[j]]

AddParam(groups, plist, i, weight_decay, lr_scale, L) ==
    LET p == plist[i]
        have == \E j \in 1..Len(groups) : groups[j].name = GroupName(p)
        gs == IF have THEN groups
              ELSE Append(groups, NewGroup(p, weight_decay, lr_scale, L))
    IN  IF ~p.requires_grad THEN groups
        ELSE [j \in 1..Len(gs) |->
                IF gs[j].name = GroupName(p)
                THEN [gs[j] EXCEPT !.params = Append(@, i)]
                ELSE gs[j]]

\* parameter_group_vars after the first n parameters, in insertion order.
RECURSIVE ParamGroups(_, _, _, _, _)
ParamGroups(plist, n, weight_decay, lr_scale, L) ==
    IF n = 0 THEN <<>>
    ELSE AddParam(ParamGroups(plist, n - 1, weight_decay, lr_scale, L),
                  plist, n, weight_decay, lr_scale, L)

\* list(parameter_group_vars.values()): the groups without their names.
OptimParams(plist, weight_decay, lr_scale, L) ==
    LET gs == ParamGroups(plist, Len(plist), weight_decay, lr_scale, L)
    IN  [j \in 1..Len(gs) |->
            [weight_decay |-> gs[j].weight_decay, params |-> gs[j].params,
             lr_scale |-> gs[j].lr_scale]]

NoOpt == [outcome |-> "none", exc |-> "", vit_name |-> "unset",
          encoder |-> "unset", weight_decay |-> 0, lr_scale |-> <<1, 1>>,
          value |-> <<>>]

\* Arguments <<weight_decay, lr_scale>> a caller may pass: weight_decay in
\* thousandths, lr_scale as a rational.
OptArgs == { <<50, <<1, 2>>>>, <<0, <<3, 2>>>> }

OptRaised(e) ==
    [NoOpt EXCEPT !.outcome = "raised", !.exc = e, !.vit_name = vit_name,
                  !.encoder = visual_encoder.kind]

get_optimizer_params(weight_decay, lr_scale) ==
    /\ process = "running"
    /\ optRet' =
         IF vit_name = "unset"
         THEN \* self.vit_name does not exist yet
              OptRaised("AttributeError")
         ELSE IF vit_name = "eva_clip_g"
         THEN IF visual_encoder.kind # "eva"
              THEN \* no self.visual_encoder with a get_num_layer method
                   OptRaised("AttributeError")
              ELSE [outcome |-> "returned", exc |-> "",
                    vit_name |-> vit_name, encoder |-> visual_encoder.kind,
                    weight_decay |-> weight_decay, lr_scale |-> lr_scale,
                    value |-> OptimParams(named_parameters, weight_decay,
                                          lr_scale, visual_encoder.num_layers)]
         ELSE \* super() is nn.Module, which has no get_optimizer_params
              OptRaised("AttributeError")
    /\ UNCHANGED <<vit_name, visual_encoder, named_parameters, initRet,
                   loadVars, lemVars, trainVars>>

InitEncoderCall == \E m \in ModelNames : init_vision_encoder(m)

AssignEncoder ==
    \E plist \in ParamLists(initRet.visual_encoder.num_layers) :
        assign_visual_encoder(plist)

OptimizerCall == \E a \in OptArgs : get_optimizer_params(a[1], a[2])

-----------------------------------------------------------------------------
(* disabled_train                                                           *)

\* The model and the submodules a subclass registers on it.
Modules == {"model", "visual_encoder", "ln_vision", "Qformer"}

children(m) ==
    IF m = "model" THEN {"visual_encoder", "ln_vision", "Qformer"} ELSE {}

\* Python's bool values, as they appear where a module may appear too.
PyBool(b) == IF b THEN "True" ELSE "False"

NoTrain == [outcome |-> "none", exc |-> "", target |-> "", mode |-> "",
            overwritten |-> FALSE, value |-> ""]

\* disabled_train(self, mode=True): returns its first argument and touches
\* nothing.
disabled_train(self, mode) == self

\* The modules whose training flag nn.Module.train(mode) called on m sets:
\* m, and through  for module in self.children(): module.train(mode)  every
\* child whose train attribute is still nn.Module.train.
RECURSIVE Reached(_)
Reached(m) ==
    {m} \cup UNION { Reached(c) :
                     c \in { x \in children(m) : trainFn[x] = "Module.train" } }

\* Overwrite model.train with this function:  m.train = disabled_train .
\* The function becomes an instance attribute and is not bound to m.
overwrite_train(m) ==
    /\ process = "running"
    /\ trainFn[m] = "Module.train"
    /\ trainFn' = [trainFn EXCEPT ![m] = "disabled_train"]
    /\ UNCHANGED <<training, trainRet, loadVars, lemVars, vitVars>>

\* m.train(mode)
train(m, mode) ==
    /\ process = "running"
    /\ IF trainFn[m] = "disabled_train"
       THEN \* the plain function receives mode as its first argument
            /\ trainRet' = [outcome |-> "returned", exc |-> "", target |-> m,
                            mode |-> PyBool(mode), overwritten |-> TRUE,
                            value |-> disabled_train(PyBool(mode), TRUE)]
            /\ UNCHANGED training
       ELSE /\ training' = [x \in Modules |->
                              IF x \in Reached(m) THEN mode ELSE training[x]]
            /\ trainRet' = [outcome |-> "returned", exc |-> "", target |-> m,
                            mode |-> PyBool(mode), overwritten |-> FALSE,
                            value |-> m]
    /\ UNCHANGED <<trainFn, loadVars, lemVars, vitVars>>

TrainCall == \E m \in Modules, mode \in BOOLEAN : train(m, mode)

OverwriteTrain == \E m \in Modules : overwrite_train(m)

-----------------------------------------------------------------------------
(* Specifications                                                           *)

InitBase ==
    /\ state_dict = [k \in ModelKeys |-> 0]
    /\ fs = [n \in Names |-> 0]
    /\ cache = [n \in Names |-> 0]
    /\ loadRet = NoLoad
    /\ _lemmatizer = "unset"
    /\ lemObj = 0
    /\ spacyLoads = 0
    /\ errorLogged = FALSE
    /\ process = "running"
    /\ exitStatus = -1
    /\ lemRet = NoLem
    /\ lemmatizeRet = NoLemmatize
    /\ vit_name = "unset"
    /\ visual_encoder = NoEncoder
    /\ named_parameters = <<>>
    /\ initRet = NoInit
    /\ optRet = NoOpt
    /\ training = [m \in Modules |-> TRUE]
    /\ trainFn = [m \in Modules |-> "Module.train"]
    /\ trainRet = NoTrain

\* An interpreter with spaCy and its model installed.
Init == InitBase /\ spacyEnv = "ok"

\* An interpreter with any spaCy installation.
InitAnySpacy == InitBase /\ spacyEnv \in {"ok", "missing", "no_model"}

\* Checkpoint loading.
NextLoad == LoadCall \/ FileChange

SpecLoad == Init /\ [][NextLoad]_vars

\* The lemmatizer.
NextLemma ==
    \/ lemmatizer
    \/ exit_process
    \/ assign_lemmatizer_none
    \/ LemmatizeCall

SpecLemma == InitAnySpacy /\ [][NextLemma]_vars

\* The vision encoder and the optimizer groups.
NextVit == InitEncoderCall \/ AssignEncoder \/ OptimizerCall

SpecVit == Init /\ [][NextVit]_vars

\* Train / eval mode.
NextTrain == TrainCall \/ OverwriteTrain

SpecTrain == Init /\ [][NextTrain]_vars

\* Every operation in one specification.  The four groups of variables are
\* written by disjoint sets of actions and share only `process`, so each
\* group is checked under its own specification above.
Next == NextLoad \/ NextLemma \/ NextVit \/ NextTrain

Spec == InitAnySpacy /\ [][Next]_vars

-----------------------------------------------------------------------------
(* Properties of load_from_pretrained                                       *)

\* C1: a call whose argument is neither a URL nor an existing file raises
\* RuntimeError, reads no checkpoint, never reaches load_state_dict and
\* leaves the model's parameters (and the cache) as they were.
C1_InvalidSourceRaises ==
    [][\A n \in Names :
          (load_from_pretrained(n) /\ ~is_url(n) /\ ~isfile(n))
          => /\ loadRet'.outcome = "raised"
             /\ loadRet'.exc = "RuntimeError"
             /\ loadRet'.arg = n
             /\ loadRet'.read = "none"
             /\ ~loadRet'.applied
             /\ state_dict' = state_dict
             /\ cache' = cache]_vars

\* C1 witness: an invalid name was refused on a model that an earlier load
\* had already changed.
C1_Witness ==
    /\ loadRet.outcome = "raised"
    /\ loadRet.exc = "RuntimeError"
    /\ ~is_url(loadRet.arg)
    /\ ~isfile(loadRet.arg)
    /\ state_dict["w"] # 0

\* C7: a URL is served from the download cache whether or not a local file
\* of that name exists, and the local path is read only for a non-URL that
\* is an existing file; on both branches a checkpoint with a "model" entry
\* is applied key by key, missing and unexpected keys are reported rather
\* than raised, and the report is what the call returns.
C7_DispatchOrder ==
    [][\A n \in Names :
          load_from_pretrained(n)
          => LET r == loadRet'
                 c == r.readId
             IN  /\ is_url(n) =>
                       /\ r.read \in {"cache", "none"}
                       /\ r.read = "cache" => (c = cache'[n] /\ c # 0)
                       /\ r.read = "none" => r.exc = "URLError"
                 /\ (~is_url(n) /\ isfile(n)) =>
                       (r.read = "path" /\ c = fs[n])
                 /\ (r.read # "none" /\ c \in {1, 2, 3}) =>
                       /\ r.outcome = "returned"
                       /\ r.applied
                       /\ \A k \in ModelKeys :
                             state_dict'[k] =
                               IF k \in CkptKeys(c) THEN c ELSE state_dict[k]
                       /\ r.msg.missing_keys = ModelKeys \ CkptKeys(c)
                       /\ r.msg.unexpected_keys = CkptKeys(c) \ ModelKeys]_vars

\* C7 witness: a URL was loaded from the cache although a local file of the
\* same name with other content exists, and the checkpoint carried a key the
\* model does not have.
C7_Witness ==
    /\ loadRet.outcome = "returned"
    /\ is_url(loadRet.arg)
    /\ isfile(loadRet.arg)
    /\ loadRet.read = "cache"
    /\ fs[loadRet.arg] # loadRet.readId
    /\ loadRet.msg.unexpected_keys # {}

-----------------------------------------------------------------------------
(* Properties of the lemmatizer                                             *)

\* C2: where spaCy cannot be imported, an access to the lemmatizer property
\* logs the error and then ends the process with status 1.
C2_MissingSpacyExits ==
    (spacyEnv = "missing" /\ lemRet.outcome # "none")
    => /\ lemRet.outcome \in {"exiting", "exit"}
       /\ errorLogged
       /\ lemRet.outcome = "exit" => (process = "exited" /\ exitStatus = 1)

\* C3: with spaCy installed, the first access loads the model, it is loaded
\* once, and every access returns that object.
C3_LazySingleton ==
    (spacyEnv = "ok" /\ lemRet.outcome # "none")
    => /\ lemRet.outcome = "returned"
       /\ spacyLoads = 1
       /\ _lemmatizer = "obj"
       /\ lemRet.value = lemObj

\* The i-th result of _lemmatize is the i-th answer's words, one " " between
\* neighbours.
LemmatizedAs(result, doc) ==
    /\ Len(result) = IF Len(doc) = 0 THEN 0 ELSE 2 * Len(doc) - 1
    /\ \A j \in 1..Len(doc) :
          result[2 * j - 1] =
            IF doc[j].pos_ = "NOUN" \/ doc[j].pos_ = "VERB"
            THEN doc[j].lemma_ ELSE doc[j].text
    /\ \A j \in 1..(Len(doc) - 1) : result[2 * j] = " "

\* C10: with spaCy installed, _lemmatize(answers) returns one string per
\* answer, the i-th made of the i-th answer's tokens in order.
C10_LemmatizeResult ==
    (spacyEnv = "ok" /\ lemmatizeRet.outcome # "none")
    => /\ lemmatizeRet.outcome = "returned"
       /\ Len(lemmatizeRet.value) = Len(lemmatizeRet.arg)
       /\ \A i \in 1..Len(lemmatizeRet.arg) :
             LemmatizedAs(lemmatizeRet.value[i], lemmatizeRet.arg[i])

\* What does hold of the lemmatizer code: the process exits only after the
\* error was logged and with status 1; no access returns None; spacy.load
\* runs at most once and every returned object is the cached one; and a
\* _lemmatize call that returns has the result C10 describes.
LemmatizerLemmas ==
    /\ process \in {"in_except", "exited"} => (errorLogged /\ spacyEnv = "missing")
    /\ process = "exited" <=> exitStatus = 1
    /\ lemRet.outcome = "returned" => (lemRet.value = lemObj /\ lemObj # 0)
    /\ spacyLoads <= 1
    /\ (_lemmatizer = "obj") <=> (spacyLoads = 1)
    /\ lemmatizeRet.outcome = "returned" =>
          /\ Len(lemmatizeRet.value) = Len(lemmatizeRet.arg)
          /\ \A i \in 1..Len(lemmatizeRet.arg) :
                LemmatizedAs(lemmatizeRet.value[i], lemmatizeRet.arg[i])

-----------------------------------------------------------------------------
(* Properties of init_vision_encoder and get_optimizer_params               *)

\* C4: each of the three accepted names yields a returned pair and is
\* recorded in vit_name; any other name fails the assertion with nothing
\* constructed.
C4_AcceptedNames ==
    initRet.outcome # "none"
    => IF initRet.arg \in {"eva_clip_g", "eva2_clip_L", "clip_L"}
       THEN /\ initRet.outcome = "returned"
            /\ initRet.constructed
            /\ vit_name = initRet.arg
       ELSE /\ initRet.outcome = "raised"
            /\ initRet.exc = "AssertionError"
            /\ ~initRet.constructed

\* Does hold: a refused name leaves vit_name alone, and vit_name only ever
\* holds a name whose encoder was built.
InitEncoderLemmas ==
    [][\A m \in ModelNames :
          init_vision_encoder(m)
          => /\ m \notin {"eva_clip_g", "clip_L"} =>
                   (vit_name' = vit_name /\ initRet'.outcome = "raised")
             /\ m \in {"eva_clip_g", "clip_L"} =>
                   (vit_name' = m /\ initRet'.outcome = "returned")]_vars

\* C6: called with vit_name set by init_vision_encoder and the encoder it
\* returned stored on the module, get_optimizer_params returns the groups,
\* for eva_clip_g and clip_L alike.
C6_OptimizerParamsReturns ==
    ( /\ optRet.outcome # "none"
      /\ \/ optRet.vit_name = "eva_clip_g" /\ optRet.encoder = "eva"
         \/ optRet.vit_name = "clip_L" /\ optRet.encoder = "clip" )
    => optRet.outcome = "returned"

\* Equality and order of rationals <<numerator, denominator>>.
RatEq(a, b) == a[1] * b[2] = b[1] * a[2]

RatLeq(a, b) == a[1] * b[2] <= b[1] * a[2]

\* The parameters of returned group g, as their records.
GroupMembers(g) ==
    { named_parameters[optRet.value[g].params[k]] :
        k \in 1..Len(optRet.value[g].params) }

\* lr_scale to the power k, by repeated multiplication.
RECURSIVE Decay(_, _)
Decay(q, k) == IF k = 0 THEN <<1, 1>> ELSE
    LET r == Decay(q, k - 1) IN <<q[1] * r[1], q[2] * r[2]>>

\* C5: on the eva_clip_g path a group holding encoder parameters of layer
\* id i has lr_scale = lr_scale^(L+1-i): 1 at the last layer id and, for
\* lr_scale <= 1, no larger at an earlier layer than at a later one; a group
\* holding parameters outside the encoder has lr_scale 1.
C5_LayerwiseDecay ==
    optRet.outcome = "returned"
    => LET L == visual_encoder.num_layers
           groups == 1..Len(optRet.value)
       IN  /\ \A g \in groups : \A p \in GroupMembers(g) :
                 IF p.vit
                 THEN /\ p.layer \in 0..(L + 1)
                      /\ RatEq(optRet.value[g].lr_scale,
                               Decay(optRet.lr_scale, L + 1 - p.layer))
                      /\ p.layer = L + 1 =>
                            RatEq(optRet.value[g].lr_scale, <<1, 1>>)
                 ELSE optRet.value[g].lr_scale = <<1, 1>>
           /\ RatLeq(optRet.lr_scale, <<1, 1>>) =>
                 \A g, h \in groups :
                 \A p \in GroupMembers(g), q \in GroupMembers(h) :
                    (p.vit /\ q.vit /\ p.layer <= q.layer) =>
                       RatLeq(optRet.value[g].lr_scale,
                              optRet.value[h].lr_scale)

\* C5 witness: with lr_scale 1/2, groups for the first layer id, for a later
\* one and for a parameter outside the encoder were returned, the first
\* scaled down strictly more than the later one.
C5_Witness ==
    /\ optRet.outcome = "returned"
    /\ optRet.lr_scale = <<1, 2>>
    /\ \E g, h \in 1..Len(optRet.value) :
          /\ \E p \in GroupMembers(g) : p.vit /\ p.layer = 0
          /\ \E q \in GroupMembers(h) : q.vit /\ q.layer > 0
          /\ ~RatLeq(optRet.value[h].lr_scale, optRet.value[g].lr_scale)

\* How often parameter number i occurs in the returned groups.
Occurrences(i) ==
    Cardinality({ gk \in (1..Len(optRet.value)) \X (1..MaxParams) :
                    /\ gk[2] <= Len(optRet.value[gk[1]].params)
                    /\ optRet.value[gk[1]].params[gk[2]] = i })

\* C8: on the eva_clip_g path the returned groups partition the trainable
\* parameters: each occurs once, frozen ones never, no group is empty, and
\* a group's weight_decay is 0 for one-dimensional or ".bias" parameters and
\* the weight_decay argument for all others.
C8_GroupsPartition ==
    optRet.outcome = "returned"
    => /\ \A i \in 1..Len(named_parameters) :
             Occurrences(i) = IF named_parameters[i].requires_grad THEN 1 ELSE 0
       /\ \A g \in 1..Len(optRet.value) :
             /\ Len(optRet.value[g].params) > 0
             /\ \A k \in 1..Len(optRet.value[g].params) :
                   optRet.value[g].params[k] \in 1..Len(named_parameters)
             /\ \A p \in GroupMembers(g) :
                   optRet.value[g].weight_decay =
                     IF p.one_dim \/ p.bias THEN 0 ELSE optRet.weight_decay

\* C8 witness: a call with a non-zero weight_decay on a module holding a
\* frozen parameter and a one-dimensional trainable one.
C8_Witness ==
    /\ optRet.outcome = "returned"
    /\ optRet.weight_decay # 0
    /\ \E i, j \in 1..Len(named_parameters) :
          /\ ~named_parameters[i].requires_grad
          /\ named_parameters[j].requires_grad
          /\ named_parameters[j].one_dim
          /\ Occurrences(j) = 1

-----------------------------------------------------------------------------
(* Properties of disabled_train                                             *)

\* C9: once a module's train is overwritten with disabled_train, a call
\* train(mode) on it changes no training flag or other state and returns
\* the module itself.
C9_DisabledTrainReturnsModule ==
    [][\A m \in Modules, mode \in BOOLEAN :
          (train(m, mode) /\ trainFn[m] = "disabled_train")
          => /\ training' = training
             /\ trainFn' = trainFn
             /\ trainRet'.value = m]_vars

\* Does hold: once overwritten, a module's training flag never changes
\* again, whichever module train is called on, and the overwrite stays.
DisabledTrainLemmas ==
    [][\A m \in Modules :
          trainFn[m] = "disabled_train"
          => (training'[m] = training[m] /\ trainFn'[m] = trainFn[m])]_vars

=============================================================================
